---- MODULE Spec2Model ----
(***************************************************************************)
(* Alert lifecycle service of the water-quality admin dashboard            *)
(* (src/src/services/alertManagementService.ts, class                      *)
(* AlertManagementService).  The hosted store is modelled as three tables  *)
(* (alerts, alert_rules, alert_action_logs); every awaited store operation *)
(* is one atomic step whose outcome is "ok", "err" (the client resolves    *)
(* with {error}) or "throw" (the awaited promise rejects).  A failed       *)
(* operation leaves the table unchanged.  Time is counted in minutes.      *)
(* The mobile sync of the same file (class MobileAppService) and the       *)
(* realtime data service (src/src/services/realtimeDataService.ts) write   *)
(* to the same alerts table and are modelled further down, each with a     *)
(* specification of its own.                                               *)
(***************************************************************************)
EXTENDS Integers, Sequences, FiniteSets, TLC

\* ------------------------------------------------------------------ bounds
MaxCalls  == 3    \* public operations started in one behaviour
MaxClock  == 1    \* last clock reading
MaxAlerts == 2    \* alert rows ever inserted
MaxRules  == 2    \* rule rows ever inserted
MaxReadings == 2  \* readings in one syncReadings call
MaxSubscribes == 2  \* subscribe calls on the realtime data service

\* --------------------------------------------------------------- constants
NullTime == -1    \* a null / absent timestamp or number column
NullStr  == "null"  \* a null / absent text column

Procs    == {1}
Statuses == {"active", "acknowledged", "resolved", "dismissed"}
Types    == {"water_quality", "device_offline"}
Severities == {"high", "critical"}
Users    == {"u1", NullStr}          \* userId is optional
Outcomes == {"ok", "err", "throw"}
\* values a rejected store promise can carry
Thrown   == {[isError |-> TRUE, message |-> "Failed to fetch"],
             [isError |-> FALSE, message |-> "x"]}

VARIABLES
  clock,        \* wall clock (Date.now()), in minutes
  alerts,       \* table alerts: set of rows
  rules,        \* table alert_rules: set of rows
  actionLogs,   \* table alert_action_logs: sequence of rows, in insert order
  schedLog,     \* calls of scheduleEscalation / scheduleAutoResolve, in order
  nextId,       \* next identifier the store generates for alerts
  nextRuleId,   \* next identifier the store generates for alert_rules
  pc,           \* per request: the store operation it is suspended at
  frame,        \* per request: the locals of the running (or last) call
  result,       \* per request: what the last call returned
  calls,        \* number of public operations started
  rt,           \* the RealtimeDataService instance: its private maps
  rtio          \* its surroundings: channels joined, ids handed out,
                \* callbacks the latest table event invoked

vars == <<clock, alerts, rules, actionLogs, schedLog, nextId, nextRuleId,
          pc, frame, result, calls, rt, rtio>>

realtime == <<rt, rtio>>

\* new RealtimeDataService(): empty maps, nothing joined
RealtimeInit ==
  /\ rt = [subscriptions |-> {}, updateCallbacks |-> {},
           metricsCallbacks |-> {}]
  /\ rtio = [channels |-> {}, nextSub |-> 1, subscribes |-> 0,
             handed |-> {}, invoked |-> {}, released |-> {}]

\* ------------------------------------------------------------ data shapes
\* columns of an alerts row that are null when the insert does not set them
NullAlertColumns ==
  [id |-> 0, type |-> NullStr, severity |-> NullStr, status |-> NullStr,
   metadata |-> {}, created_at |-> NullTime, updated_at |-> NullTime,
   acknowledged_at |-> NullTime, acknowledged_by |-> NullStr,
   resolved_at |-> NullTime, resolved_by |-> NullStr,
   escalation_level |-> NullTime, auto_resolve_at |-> NullTime]

\* JSON object spread {...a, ...b}: keys of b win
Spread(a, b) == b @@ a

\* UPDATE ... SET upd: only the columns present in upd change
ApplyUpdate(row, upd) ==
  [c \in DOMAIN row |-> IF c \in DOMAIN upd THEN upd[c] ELSE row[c]]

\* JSON serialisation of the request body drops keys whose value is undefined
DropUndefined(obj) ==
  LET keep == {k \in DOMAIN obj : ~(k \in {"acknowledged_by", "resolved_by"}
                                    /\ obj[k] = NullStr)}
  IN  [k \in keep |-> obj[k]]


\* metadata is a JSON object, kept as a set of <<key, value>> pairs
MetaSpread(a, b) ==
  b \cup {kv \in a : \A kw \in b : kw[1] # kv[1]}

\* ------------------------------------------------------------------ rules
\* actions / escalation_rules of the rule templates an administrator uses
EmailAction   == [type |-> "email",   recipients |-> "ops"]
SmsAction     == [type |-> "sms",     recipients |-> "duty"]
PushAction    == [type |-> "push",    recipients |-> "field"]
WebhookAction == [type |-> "webhook", recipients |-> "hook"]

\* conditions of a rule: { parameter, operator, value }
SourceIsSensor ==
  <<[parameter |-> "source", operator |-> "=", value |-> "sensor"]>>

RuleTemplates ==
  { [type |-> "device_offline", severity |-> "critical", enabled |-> TRUE,
     conditions |-> SourceIsSensor,
     actions |-> <<EmailAction>>,
     escalation_rules |-> <<[delay_minutes |-> 5], [delay_minutes |-> 9]>>,
     auto_resolve_after_minutes |-> 1],
    [type |-> "device_offline", severity |-> "critical", enabled |-> TRUE,
     conditions |-> <<>>,
     actions |-> <<SmsAction>>,
     escalation_rules |-> <<[delay_minutes |-> 4]>>,
     auto_resolve_after_minutes |-> 2],
    [type |-> "device_offline", severity |-> "critical", enabled |-> FALSE,
     conditions |-> <<>>,
     actions |-> <<WebhookAction>>,
     escalation_rules |-> <<[delay_minutes |-> 7]>>,
     auto_resolve_after_minutes |-> 2],
    [type |-> "device_offline", severity |-> "high", enabled |-> TRUE,
     conditions |-> <<>>,
     actions |-> <<PushAction>>,
     escalation_rules |-> <<[delay_minutes |-> 3]>>,
     auto_resolve_after_minutes |-> 0],
    [type |-> "water_quality", severity |-> "high", enabled |-> TRUE,
     conditions |-> <<>>,
     actions |-> <<PushAction, WebhookAction>>,
     escalation_rules |-> <<>>,
     auto_resolve_after_minutes |-> 2] }

\* a stored alert_rules row: the template plus id and created_at
RuleRow(t, id, now) ==
  [id |-> id, type |-> t.type, severity |-> t.severity, enabled |-> t.enabled,
   conditions |-> t.conditions, actions |-> t.actions, escalation_rules |-> t.escalation_rules,
   auto_resolve_after_minutes |-> t.auto_resolve_after_minutes,
   created_at |-> now, updated_at |-> now]

\* SELECT * FROM alert_rules ORDER BY created_at DESC: every sequence of the
\* rows that is ordered so (rows with equal created_at come in any order)
RuleOrders(rs) ==
  {s \in [1..Cardinality(rs) -> rs] :
      /\ \A i, j \in DOMAIN s : i # j => s[i] # s[j]
      /\ \A i, j \in DOMAIN s : i < j => s[i].created_at >= s[j].created_at}

\* the alert's metadata holds what the conditions of the rule ask for
ConditionsHold(rule, alert) ==
  \A i \in DOMAIN rule.conditions :
     <<rule.conditions[i].parameter, rule.conditions[i].value>>
        \in alert.metadata

ApplicableRulesEvaluatingConditions(rs, alert) ==
  SelectSeq(rs, LAMBDA rule : /\ rule.enabled
                              /\ rule.type = alert.type
                              /\ rule.severity = alert.severity
                              /\ ConditionsHold(rule, alert))

ApplicableRulesIgnoringEnabled(rs, alert) ==
  SelectSeq(rs, LAMBDA rule : /\ rule.type = alert.type
                              /\ rule.severity = alert.severity)

\* rules.filter(rule => rule.enabled && type equal && severity equal)
ApplicableRules(rs, alert) ==
  SelectSeq(rs, LAMBDA rule : /\ rule.enabled
                              /\ rule.type = alert.type
                              /\ rule.severity = alert.severity)

\* the awaited calls of one iteration of `for (const rule of applicableRules)`
RuleWork(rule) ==
  [i \in 1..Len(rule.actions) |->
      [kind |-> "action", atype |-> rule.actions[i].type,
       recipients |-> rule.actions[i].recipients, arg |-> 0]]
  \o (IF Len(rule.escalation_rules) > 0
        THEN <<[kind |-> "escalate", atype |-> "", recipients |-> "",
                arg |-> rule.escalation_rules[1].delay_minutes]>>
        ELSE <<>>)
  \o (IF rule.auto_resolve_after_minutes # NullTime
         /\ rule.auto_resolve_after_minutes # 0      \* 0 is falsy
        THEN <<[kind |-> "autoresolve", atype |-> "", recipients |-> "",
                arg |-> rule.auto_resolve_after_minutes]>>
        ELSE <<>>)

WorkListFirstMatchOnly(rs) ==
  IF rs = <<>> THEN <<>> ELSE RuleWork(Head(rs))

RECURSIVE WorkList(_)
\* the awaited calls of the whole loop over applicableRules, in order
WorkList(rs) ==
  IF rs = <<>> THEN <<>> ELSE RuleWork(Head(rs)) \o WorkList(Tail(rs))


\* ----------------------------------------------------------- call frames
NoThrown == [isError |-> FALSE, message |-> ""]

EmptyFrame ==
  [op |-> "none", data |-> NullAlertColumns, work |-> <<>>,
   thrown |-> NoThrown, ids |-> {}, now |-> NullTime,
   failed |-> FALSE, insertOk |-> FALSE, notes |-> "",
   afterSweep |-> FALSE, prevFailed |-> FALSE, prevNow |-> NullTime]

StartFrame(op) ==
  [EmptyFrame EXCEPT !.op = op, !.now = clock]

NoResult == [op |-> "none", kind |-> "none", success |-> FALSE,
             alert |-> NullAlertColumns, updated_count |-> 0, rows |-> {}]

\* { success, message } / { success, alert, message } /
\* { success, message, updated_count }
ResultObject(op, success, alert, count) ==
  [op |-> op, kind |-> "object", success |-> success, alert |-> alert,
   updated_count |-> count, rows |-> {}]

\* a Promise<void> that resolved
ResultVoid(op) ==
  [op |-> op, kind |-> "void", success |-> FALSE,
   alert |-> NullAlertColumns, updated_count |-> 0, rows |-> {}]

\* { alerts, total } of getAlerts / the AlertRule[] of getAlertRules; the
\* order of the rows is left out
ResultList(op, rows) ==
  [op |-> op, kind |-> "list", success |-> FALSE,
   alert |-> NullAlertColumns, updated_count |-> Cardinality(rows),
   rows |-> rows]

\* a rejected promise: the exception reaches the caller
ResultException(op) ==
  [op |-> op, kind |-> "exception", success |-> FALSE,
   alert |-> NullAlertColumns, updated_count |-> 0, rows |-> {}]

CatchResultRethrows(op) == ResultException(op)

\* what the catch block of a public operation returns
CatchResult(op) ==
  CASE op \in {"getAlerts", "getAlertRules"} -> ResultList(op, {})
    [] op = "processAutoResolveAlerts" -> ResultVoid(op)
    [] OTHER -> ResultObject(op, FALSE, NullAlertColumns, 0)

\* a public operation starts on an idle request
CanStart(p) == pc[p] = "idle" /\ calls < MaxCalls

Started(p) == calls' = calls + 1

\* ------------------------------------------------------------ createAlert
\* argument values of createAlert (alertData); the type leaves id,
\* created_at and escalation_level out, an untyped caller may pass them
AlertInputs ==
  {[type |-> t, severity |-> s, status |-> "active"] :
      t \in Types, s \in Severities}
  \cup
  {[type |-> "device_offline", severity |-> "critical", status |-> "active",
    auto_resolve_at |-> 1, metadata |-> {<<"source", "sensor">>}],
   [type |-> "device_offline", severity |-> "high", status |-> "active",
    escalation_level |-> 2, created_at |-> 0]}

InsertPayloadInputWins(alertData, now) ==
  Spread([escalation_level |-> 0, created_at |-> now], alertData)

\* { ...alertData, escalation_level: 0, created_at: new Date().toISOString() }
InsertPayload(alertData, now) ==
  Spread(alertData, [escalation_level |-> 0, created_at |-> now])

\* INSERT INTO alerts ... RETURNING *: unset columns are null, the store
\* generates the id
InsertedAlert(payload, id) ==
  [Spread(NullAlertColumns, payload) EXCEPT !.id = id]

InsertRejectedOnlyOnThrow(o) == o = "throw"

\* the awaited insert rejects, or it returns an error: if (error) throw error
InsertRejected(o) == o # "ok"

CreateAlert(p, alertData, o) ==
  /\ CanStart(p)
  /\ nextId <= MaxAlerts
  /\ Started(p)
  /\ LET row == InsertedAlert(InsertPayload(alertData, clock), nextId)
         fr == [StartFrame("createAlert") EXCEPT !.insertOk = (o = "ok")]
     IN  /\ alerts' = IF o = "ok" THEN alerts \cup {row} ELSE alerts
         /\ nextId' = IF o = "ok" THEN nextId + 1 ELSE nextId
         /\ IF ~InsertRejected(o)
              THEN \* on to await this.processAlertActions(data)
                   /\ frame' = [frame EXCEPT ![p] = [fr EXCEPT !.data = row]]
                   /\ pc' = [pc EXCEPT ![p] = "pa_rules"]
                   /\ result' = [result EXCEPT ![p] = NoResult]
              ELSE \* the catch block
                   /\ frame' = [frame EXCEPT ![p] =
                        [fr EXCEPT !.failed = TRUE]]
                   /\ result' = [result EXCEPT ![p] =
                        CatchResult("createAlert")]
                   /\ UNCHANGED pc
  /\ UNCHANGED <<clock, rules, actionLogs, schedLog, nextRuleId>>
  /\ UNCHANGED realtime

\* processAlertActions: const rules = await this.getAlertRules(); filter.
\* getAlertRules turns every failure into the empty list.
LoadRules(p, o) ==
  /\ pc[p] = "pa_rules"
  /\ \E order \in RuleOrders(rules) :
       LET loaded == IF o = "ok" THEN order ELSE <<>>
           fr == frame[p]
       IN  frame' = [frame EXCEPT ![p] =
             [fr EXCEPT !.work = WorkList(ApplicableRules(loaded, fr.data)),
                        !.failed = fr.failed \/ o # "ok"]]
  /\ pc' = [pc EXCEPT ![p] = "pa_work"]
  /\ UNCHANGED <<clock, alerts, rules, actionLogs, schedLog, nextId,
                 nextRuleId, result, calls>>
  /\ UNCHANGED realtime

SentRowForLatestAlert(alert, item) ==
  [alert_id |-> nextId - 1, action_type |-> item.atype, status |-> "sent",
   error_message |-> NullStr, recipients |-> item.recipients,
   timestamp |-> clock]

SentRow(alert, item) ==
  [alert_id |-> alert.id, action_type |-> item.atype, status |-> "sent",
   error_message |-> NullStr, recipients |-> item.recipients,
   timestamp |-> clock]

FailedRow(alert, item, e) ==
  [alert_id |-> alert.id, action_type |-> item.atype, status |-> "failed",
   error_message |-> IF e.isError THEN e.message ELSE "Unknown error",
   recipients |-> NullStr, timestamp |-> clock]

\* executeAlertAction, try block: the channel stub only logs, then
\* await insert of the "sent" row (the returned error is not looked at)
ExecuteAlertAction(p, o, e) ==
  /\ pc[p] = "pa_work"
  /\ frame[p].work # <<>>
  /\ Head(frame[p].work).kind = "action"
  /\ LET fr == frame[p]
         item == Head(fr.work)
     IN  CASE o = "ok" ->
                /\ actionLogs' = Append(actionLogs, SentRow(fr.data, item))
                /\ frame' = [frame EXCEPT ![p].work = Tail(fr.work)]
                /\ UNCHANGED pc
           [] o = "err" ->
                /\ frame' = [frame EXCEPT ![p].work = Tail(fr.work),
                                          ![p].failed = TRUE]
                /\ UNCHANGED <<actionLogs, pc>>
           [] o = "throw" ->
                /\ frame' = [frame EXCEPT ![p].thrown = e,
                                          ![p].failed = TRUE]
                /\ pc' = [pc EXCEPT ![p] = "exec_catch"]
                /\ UNCHANGED actionLogs
  /\ UNCHANGED <<clock, alerts, rules, schedLog, nextId, nextRuleId, result,
                 calls>>
  /\ UNCHANGED realtime

\* executeAlertAction, catch block: await insert of the "failed" row; a
\* rejection here leaves executeAlertAction and ends the loop of
\* processAlertActions in its catch
ExecuteAlertActionCatch(p, o) ==
  /\ pc[p] = "exec_catch"
  /\ LET fr == frame[p]
         item == Head(fr.work)
         row == FailedRow(fr.data, item, fr.thrown)
     IN  /\ actionLogs' = IF o = "ok" THEN Append(actionLogs, row)
                                      ELSE actionLogs
         /\ frame' = [frame EXCEPT
              ![p].work = IF o = "throw" THEN <<>> ELSE Tail(fr.work),
              ![p].thrown = NoThrown]
  /\ pc' = [pc EXCEPT ![p] = "pa_work"]
  /\ UNCHANGED <<clock, alerts, rules, schedLog, nextId, nextRuleId, result,
                 calls>>
  /\ UNCHANGED realtime

\* scheduleEscalation: logs the schedule, no store operation
ScheduleEscalation(p) ==
  /\ pc[p] = "pa_work"
  /\ frame[p].work # <<>>
  /\ Head(frame[p].work).kind = "escalate"
  /\ schedLog' = Append(schedLog,
       [kind |-> "escalate", alert_id |-> frame[p].data.id,
        arg |-> Head(frame[p].work).arg])
  /\ frame' = [frame EXCEPT ![p].work = Tail(frame[p].work)]
  /\ UNCHANGED <<clock, alerts, rules, actionLogs, nextId, nextRuleId, pc,
                 result, calls>>
  /\ UNCHANGED realtime

AutoResolveUpdateResettingLevel(now, delayMinutes) ==
  [auto_resolve_at |-> now + delayMinutes, escalation_level |-> -1]

\* { auto_resolve_at: new Date(Date.now() + delayMinutes * 60 * 1000) }
AutoResolveUpdate(now, delayMinutes) ==
  [auto_resolve_at |-> now + delayMinutes]

\* scheduleAutoResolve: await update({auto_resolve_at}).eq('id', alert.id);
\* the returned error is not looked at, a rejection ends processAlertActions
ScheduleAutoResolve(p, o) ==
  /\ pc[p] = "pa_work"
  /\ frame[p].work # <<>>
  /\ Head(frame[p].work).kind = "autoresolve"
  /\ LET fr == frame[p]
         minutes == Head(fr.work).arg
         upd == AutoResolveUpdate(clock, minutes)
     IN  /\ schedLog' = Append(schedLog,
              [kind |-> "autoresolve", alert_id |-> fr.data.id,
               arg |-> minutes])
         /\ alerts' = IF o = "ok"
              THEN {IF a.id = fr.data.id THEN ApplyUpdate(a, upd) ELSE a :
                      a \in alerts}
              ELSE alerts
         /\ frame' = [frame EXCEPT
              ![p].work = IF o = "throw" THEN <<>> ELSE Tail(fr.work),
              ![p].failed = fr.failed \/ o # "ok"]
  /\ UNCHANGED <<clock, rules, actionLogs, nextId, nextRuleId, pc, result, calls>>
  /\ UNCHANGED realtime

CreateAlertResultFailingWithProcessing(data, processingFailed) ==
  ResultObject("createAlert", ~processingFailed,
               IF processingFailed THEN NullAlertColumns ELSE data, 0)

\* what createAlert returns once processAlertActions has resolved: the catch
\* of processAlertActions keeps every processing failure away from it
CreateAlertResult(data, processingFailed) ==
  ResultObject("createAlert", TRUE, data, 0)

AwaitProcessAlertActionsNotAwaited(p) ==
  pc[p] \in {"pa_rules", "pa_work"}

\* await this.processAlertActions(data): createAlert goes on when the loop
\* over the applicable rules has run out or its catch has cut it short
AwaitProcessAlertActions(p) ==
  pc[p] = "pa_work" /\ frame[p].work = <<>>

\* createAlert after processAlertActions returned
CreateAlertReturn(p) ==
  /\ AwaitProcessAlertActions(p)
  /\ result' = [result EXCEPT ![p] =
       CreateAlertResult(frame[p].data, frame[p].failed)]
  /\ pc' = [pc EXCEPT ![p] = "idle"]
  /\ UNCHANGED <<clock, alerts, rules, actionLogs, schedLog, nextId,
                 nextRuleId, frame, calls>>
  /\ UNCHANGED realtime


\* ------------------------------------------- updateAlertStatus / bulkUpdate
AlertIds == 1..(MaxAlerts + 1)      \* the last one is never generated

\* argument values of updateAlertStatus: <<status, userId, notes>>
StatusArgs ==
  {<<s, u, "">> : s \in Statuses, u \in Users}
  \cup {<<"acknowledged", "u1", "checked">>, <<"active", NullStr, "checked">>}

\* argument values of bulkUpdateAlerts: alertIds
IdLists == {{}, {1}, {1, 2}, {MaxAlerts + 1}, AlertIds}

StatusUpdateDataWithoutStatus(status, userId, now) ==
  DropUndefined(
    CASE status = "acknowledged" ->
           [updated_at |-> now,
            acknowledged_at |-> now, acknowledged_by |-> userId]
      [] status = "resolved" ->
           [updated_at |-> now,
            resolved_at |-> now, resolved_by |-> userId]
      [] OTHER ->
           [updated_at |-> now])

StatusUpdateDataStampingBoth(status, userId, now) ==
  DropUndefined(
    [status |-> status, updated_at |-> now,
     acknowledged_at |-> now, acknowledged_by |-> userId,
     resolved_at |-> now, resolved_by |-> userId])

\* updateData built by the switch on the target status
StatusUpdateData(status, userId, now) ==
  DropUndefined(
    CASE status = "acknowledged" ->
           [status |-> status, updated_at |-> now,
            acknowledged_at |-> now, acknowledged_by |-> userId]
      [] status = "resolved" ->
           [status |-> status, updated_at |-> now,
            resolved_at |-> now, resolved_by |-> userId]
      [] OTHER ->
           [status |-> status, updated_at |-> now])

\* if (notes) updateData.metadata = { ...updateData.metadata, status_notes }
\* (updateData.metadata is undefined at that point)
WithNotes(updateData, notes) ==
  IF notes # ""
    THEN Spread(updateData,
           [metadata |-> MetaSpread({}, {<<"status_notes", notes>>})])
    ELSE updateData

UpdateWhereIdUpTo(rows, ids, upd) ==
  {IF \E i \in ids : a.id <= i THEN ApplyUpdate(a, upd) ELSE a : a \in rows}

UpdateEveryRow(rows, ids, upd) ==
  {ApplyUpdate(a, upd) : a \in rows}

\* UPDATE alerts SET upd WHERE id IN ids
UpdateWhereIdIn(rows, ids, upd) ==
  {IF a.id \in ids THEN ApplyUpdate(a, upd) ELSE a : a \in rows}

ReturnedIdsAll(rows, ids) == ids

\* ... RETURNING id: the rows the update touched
ReturnedIds(rows, ids) == {a.id : a \in {b \in rows : b.id \in ids}}

UpdateAlertStatus(p, alertId, status, userId, notes, o) ==
  /\ CanStart(p)
  /\ Started(p)
  /\ LET upd == WithNotes(StatusUpdateData(status, userId, clock), notes)
     IN  /\ alerts' = IF o = "ok" THEN UpdateWhereIdIn(alerts, {alertId}, upd)
                                  ELSE alerts
         /\ frame' = [frame EXCEPT ![p] =
              [StartFrame("updateAlertStatus") EXCEPT
                 !.ids = {alertId}, !.failed = (o # "ok"), !.notes = notes]]
         /\ result' = [result EXCEPT ![p] =
              IF o = "ok"
                THEN ResultObject("updateAlertStatus", TRUE,
                                  NullAlertColumns, 0)
                ELSE CatchResult("updateAlertStatus")]
  /\ UNCHANGED <<clock, rules, actionLogs, schedLog, nextId, nextRuleId, pc>>
  /\ UNCHANGED realtime

BulkUpdateRowsWithoutActor(ids, status, userId, o) ==
  IF o = "ok"
    THEN UpdateWhereIdIn(alerts, ids, StatusUpdateData(status, NullStr, clock))
    ELSE alerts

\* the body of bulkUpdateAlerts: new table contents and returned object
BulkUpdateRows(ids, status, userId, o) ==
  IF o = "ok"
    THEN UpdateWhereIdIn(alerts, ids, StatusUpdateData(status, userId, clock))
    ELSE alerts

BulkUpdateResult(ids, o) ==
  IF o = "ok"
    THEN ResultObject("bulkUpdateAlerts", TRUE, NullAlertColumns,
                      Cardinality(ReturnedIds(alerts, ids)))
    ELSE CatchResult("bulkUpdateAlerts")

BulkUpdateAlerts(p, ids, status, userId, o) ==
  /\ CanStart(p)
  /\ Started(p)
  /\ alerts' = BulkUpdateRows(ids, status, userId, o)
  /\ frame' = [frame EXCEPT ![p] =
       [StartFrame("bulkUpdateAlerts") EXCEPT
          !.ids = ids, !.failed = (o # "ok")]]
  /\ result' = [result EXCEPT ![p] = BulkUpdateResult(ids, o)]
  /\ UNCHANGED <<clock, rules, actionLogs, schedLog, nextId, nextRuleId, pc>>
  /\ UNCHANGED realtime

DeleteAlert(p, alertId, o) ==
  /\ CanStart(p)
  /\ Started(p)
  /\ alerts' = IF o = "ok" THEN {a \in alerts : a.id # alertId} ELSE alerts
  /\ frame' = [frame EXCEPT ![p] =
       [StartFrame("deleteAlert") EXCEPT
          !.ids = {alertId}, !.failed = (o # "ok")]]
  /\ result' = [result EXCEPT ![p] =
       IF o = "ok"
         THEN ResultObject("deleteAlert", TRUE, NullAlertColumns, 0)
         ELSE CatchResult("deleteAlert")]
  /\ UNCHANGED <<clock, rules, actionLogs, schedLog, nextId, nextRuleId, pc>>
  /\ UNCHANGED realtime

\* -------------------------------------------------- getAlerts / getAlertRules
\* argument values of getAlerts: filters.status (empty: no status filter);
\* the other filters and the pagination are left at their defaults
StatusFilters == {{}, {"active"}}

\* query.in('status', filters.status) when the filter is given
FilterByStatus(rows, statusFilter) ==
  IF statusFilter = {} THEN rows
  ELSE {a \in rows : a.status \in statusFilter}

GetAlerts(p, statusFilter, o) ==
  /\ CanStart(p)
  /\ Started(p)
  /\ frame' = [frame EXCEPT ![p] =
       [StartFrame("getAlerts") EXCEPT !.failed = (o # "ok")]]
  /\ result' = [result EXCEPT ![p] =
       IF o = "ok"
         THEN ResultList("getAlerts", FilterByStatus(alerts, statusFilter))
         ELSE CatchResult("getAlerts")]
  /\ UNCHANGED <<clock, alerts, rules, actionLogs, schedLog, nextId,
                 nextRuleId, pc>>
  /\ UNCHANGED realtime

\* getAlertRules called by a client of the service
GetAlertRules(p, o) ==
  /\ CanStart(p)
  /\ Started(p)
  /\ frame' = [frame EXCEPT ![p] =
       [StartFrame("getAlertRules") EXCEPT !.failed = (o # "ok")]]
  /\ result' = [result EXCEPT ![p] =
       IF o = "ok" THEN ResultList("getAlertRules", rules)
                   ELSE CatchResult("getAlertRules")]
  /\ UNCHANGED <<clock, alerts, rules, actionLogs, schedLog, nextId,
                 nextRuleId, pc>>
  /\ UNCHANGED realtime

\* ------------------------------------------------ processAutoResolveAlerts
ExpiredWrongStatus(rows, now) ==
  {a \in rows : /\ a.status = "resolved"
                /\ a.auto_resolve_at # NullTime
                /\ a.auto_resolve_at <= now}

ExpiredIncludingInactive(rows, now) ==
  {a \in rows : a.auto_resolve_at # NullTime /\ a.auto_resolve_at <= now}

\* .eq('status','active').lte('auto_resolve_at', now).not(..., 'is', null)
Expired(rows, now) ==
  {a \in rows : /\ a.status = "active"
                /\ a.auto_resolve_at # NullTime
                /\ a.auto_resolve_at <= now}

\* first await: the select; a returned error leaves data null
SweepSelect(p, o) ==
  /\ LET ids == IF o = "ok" THEN {a.id : a \in Expired(alerts, clock)} ELSE {}
     IN  /\ frame' = [frame EXCEPT ![p] =
              [StartFrame("processAutoResolveAlerts") EXCEPT
                 !.ids = ids, !.failed = (o # "ok"),
                 \* observer: was the call before this one a sweep too
                 !.afterSweep = (frame[p].op = "processAutoResolveAlerts"),
                 !.prevFailed = (frame[p].op = "processAutoResolveAlerts"
                                 /\ frame[p].failed),
                 !.prevNow = IF frame[p].op = "processAutoResolveAlerts"
                               THEN frame[p].now ELSE NullTime]]
         /\ IF ids # {}
              THEN /\ pc' = [pc EXCEPT ![p] = "sweep_bulk"]
                   /\ result' = [result EXCEPT ![p] = NoResult]
              ELSE /\ pc' = pc
                   /\ result' = [result EXCEPT ![p] =
                        IF o = "throw"
                          THEN CatchResult("processAutoResolveAlerts")
                          ELSE ResultVoid("processAutoResolveAlerts")]
  /\ UNCHANGED <<clock, alerts, rules, actionLogs, schedLog, nextId,
                 nextRuleId>>
  /\ UNCHANGED realtime

\* processAutoResolveAlerts called as one of the bounded number of calls
ProcessAutoResolveAlerts(p, o) ==
  /\ CanStart(p)
  /\ Started(p)
  /\ SweepSelect(p, o)

\* processAutoResolveAlerts called by a periodic trigger, again and again
PeriodicSweep(p, o) ==
  /\ pc[p] = "idle"
  /\ SweepSelect(p, o)
  /\ UNCHANGED calls

\* second await: this.bulkUpdateAlerts(alertIds, 'resolved', 'system'),
\* whose result object is dropped
SweepBulkUpdate(p, o) ==
  /\ pc[p] = "sweep_bulk"
  /\ alerts' = BulkUpdateRows(frame[p].ids, "resolved", "system", o)
  /\ frame' = [frame EXCEPT ![p].failed = frame[p].failed \/ o # "ok"]
  /\ result' = [result EXCEPT ![p] = ResultVoid("processAutoResolveAlerts")]
  /\ pc' = [pc EXCEPT ![p] = "idle"]
  /\ UNCHANGED <<clock, rules, actionLogs, schedLog, nextId, nextRuleId, calls>>
  /\ UNCHANGED realtime

\* ------------------------------------------------------------- rule registry
RuleIds == 1..(MaxRules + 1)
RuleUpdates == {[enabled |-> TRUE], [enabled |-> FALSE]}

CreateAlertRule(p, t, o) ==
  /\ CanStart(p)
  /\ nextRuleId <= MaxRules
  /\ Started(p)
  /\ LET row == RuleRow(t, nextRuleId, clock)
     IN  /\ rules' = IF o = "ok" THEN rules \cup {row} ELSE rules
         /\ nextRuleId' = IF o = "ok" THEN nextRuleId + 1 ELSE nextRuleId
         /\ frame' = [frame EXCEPT ![p] =
              [StartFrame("createAlertRule") EXCEPT !.failed = (o # "ok")]]
         /\ result' = [result EXCEPT ![p] =
              IF o = "ok"
                THEN ResultObject("createAlertRule", TRUE, NullAlertColumns, 0)
                ELSE CatchResult("createAlertRule")]
  /\ UNCHANGED <<clock, alerts, actionLogs, schedLog, nextId, pc>>
  /\ UNCHANGED realtime

UpdateAlertRule(p, ruleId, updates, o) ==
  /\ CanStart(p)
  /\ Started(p)
  /\ LET upd == Spread(updates, [updated_at |-> clock])
     IN  rules' = IF o = "ok"
           THEN {IF r.id = ruleId THEN ApplyUpdate(r, upd) ELSE r : r \in rules}
           ELSE rules
  /\ frame' = [frame EXCEPT ![p] =
       [StartFrame("updateAlertRule") EXCEPT !.failed = (o # "ok")]]
  /\ result' = [result EXCEPT ![p] =
       IF o = "ok"
         THEN ResultObject("updateAlertRule", TRUE, NullAlertColumns, 0)
         ELSE CatchResult("updateAlertRule")]
  /\ UNCHANGED <<clock, alerts, actionLogs, schedLog, nextId, nextRuleId, pc>>
  /\ UNCHANGED realtime

DeleteAlertRule(p, ruleId, o) ==
  /\ CanStart(p)
  /\ Started(p)
  /\ rules' = IF o = "ok" THEN {r \in rules : r.id # ruleId} ELSE rules
  /\ frame' = [frame EXCEPT ![p] =
       [StartFrame("deleteAlertRule") EXCEPT !.failed = (o # "ok")]]
  /\ result' = [result EXCEPT ![p] =
       IF o = "ok"
         THEN ResultObject("deleteAlertRule", TRUE, NullAlertColumns, 0)
         ELSE CatchResult("deleteAlertRule")]
  /\ UNCHANGED <<clock, alerts, actionLogs, schedLog, nextId, nextRuleId, pc>>
  /\ UNCHANGED realtime

\* --------------------------------------------------------------- the clock
Tick ==
  /\ clock < MaxClock
  /\ clock' = clock + 1
  /\ UNCHANGED <<alerts, rules, actionLogs, schedLog, nextId, nextRuleId, pc,
                 frame, result, calls>>
  /\ UNCHANGED realtime

\* ----------------------------------------------------------- specification
Init ==
  /\ clock = 0
  /\ alerts = {}
  /\ rules = {}
  /\ actionLogs = <<>>
  /\ schedLog = <<>>
  /\ nextId = 1
  /\ nextRuleId = 1
  /\ pc = [p \in Procs |-> "idle"]
  /\ frame = [p \in Procs |-> EmptyFrame]
  /\ result = [p \in Procs |-> NoResult]
  /\ calls = 0
  /\ RealtimeInit

Next ==
  \/ Tick
  \/ \E p \in Procs, d \in AlertInputs, o \in Outcomes : CreateAlert(p, d, o)
  \/ \E p \in Procs, o \in Outcomes : LoadRules(p, o)
  \/ \E p \in Procs, o \in Outcomes, e \in Thrown : ExecuteAlertAction(p, o, e)
  \/ \E p \in Procs, o \in Outcomes : ExecuteAlertActionCatch(p, o)
  \/ \E p \in Procs : ScheduleEscalation(p)
  \/ \E p \in Procs, o \in Outcomes : ScheduleAutoResolve(p, o)
  \/ \E p \in Procs : CreateAlertReturn(p)
  \/ \E p \in Procs, id \in AlertIds, a \in StatusArgs, o \in Outcomes :
        UpdateAlertStatus(p, id, a[1], a[2], a[3], o)
  \/ \E p \in Procs, ids \in IdLists, s \in Statuses, u \in Users,
        o \in Outcomes : BulkUpdateAlerts(p, ids, s, u, o)
  \/ \E p \in Procs, id \in AlertIds, o \in Outcomes : DeleteAlert(p, id, o)
  \/ \E p \in Procs, f \in StatusFilters, o \in Outcomes : GetAlerts(p, f, o)
  \/ \E p \in Procs, o \in Outcomes : GetAlertRules(p, o)
  \/ \E p \in Procs, o \in Outcomes : ProcessAutoResolveAlerts(p, o)
  \/ \E p \in Procs, o \in Outcomes : SweepBulkUpdate(p, o)
  \/ \E p \in Procs, t \in RuleTemplates, o \in Outcomes :
        CreateAlertRule(p, t, o)
  \/ \E p \in Procs, id \in RuleIds, u \in RuleUpdates, o \in Outcomes :
        UpdateAlertRule(p, id, u, o)
  \/ \E p \in Procs, id \in RuleIds, o \in Outcomes : DeleteAlertRule(p, id, o)

Spec == Init /\ [][Next]_vars


\* ------------------------------------------- two requests in flight at once
\* two callers of the service whose awaited store operations interleave
Procs2 == {1, 2}

\* the alert_rules table after an administrator has created the rules of the
\* set ts of templates, all at clock 0
RulesCreated(ts) ==
  LET n == Cardinality(ts)
      idOf == CHOOSE f \in [ts -> 1..n] : \A t, u \in ts : t # u => f[t] # f[u]
  IN  {RuleRow(t, idOf[t], 0) : t \in ts}

\* the rule sets and createAlert inputs of the racing calls: one rule for
\* each of two kinds of alert, or a rule for one of them only
EmailRule == CHOOSE t \in RuleTemplates : t.actions = <<EmailAction>>
PushWebhookRule ==
  CHOOSE t \in RuleTemplates : t.actions = <<PushAction, WebhookAction>>
RaceRuleSets == {{EmailRule}, {EmailRule, PushWebhookRule}}
RaceAlertInputs ==
  {d \in AlertInputs :
     /\ DOMAIN d = {"type", "severity", "status"}
     /\ \E t \in {EmailRule, PushWebhookRule} :
          t.type = d.type /\ t.severity = d.severity}

\* two concurrent createAlert calls over a rule set that is already stored
InitRace ==
  /\ clock = 0
  /\ alerts = {}
  /\ \E ts \in RaceRuleSets :
       /\ Cardinality(ts) <= MaxRules
       /\ rules = RulesCreated(ts)
       /\ nextRuleId = Cardinality(ts) + 1
  /\ actionLogs = <<>>
  /\ schedLog = <<>>
  /\ nextId = 1
  /\ pc = [p \in Procs2 |-> "idle"]
  /\ frame = [p \in Procs2 |-> EmptyFrame]
  /\ result = [p \in Procs2 |-> NoResult]
  /\ calls = 0
  /\ RealtimeInit

\* the steps of request p inside createAlert after its insert
ProcessingStep(p) ==
  \/ \E o \in Outcomes : LoadRules(p, o)
  \/ \E o \in Outcomes, e \in Thrown : ExecuteAlertAction(p, o, e)
  \/ \E o \in Outcomes : ExecuteAlertActionCatch(p, o)
  \/ ScheduleEscalation(p)
  \/ \E o \in Outcomes : ScheduleAutoResolve(p, o)
  \/ CreateAlertReturn(p)

NextRace ==
  \/ \E p \in Procs2, d \in RaceAlertInputs, o \in Outcomes :
        CreateAlert(p, d, o)
  \/ \E p \in Procs2, o \in Outcomes : LoadRules(p, o)
  \/ \E p \in Procs2, o \in Outcomes, e \in Thrown :
        ExecuteAlertAction(p, o, e)
  \/ \E p \in Procs2, o \in Outcomes : ExecuteAlertActionCatch(p, o)
  \/ \E p \in Procs2 : ScheduleEscalation(p)
  \/ \E p \in Procs2, o \in Outcomes : ScheduleAutoResolve(p, o)
  \/ \E p \in Procs2 : CreateAlertReturn(p)

\* the event loop runs the continuation of every awaited call that settles
SpecRace ==
  /\ InitRace
  /\ [][NextRace]_vars
  /\ \A p \in Procs2 : WF_vars(ProcessingStep(p))

\* the alerts table after createAlert has stored the inputs of the set ds,
\* all at clock 0, no rule being stored
AlertsCreated(ds) ==
  LET n == Cardinality(ds)
      idOf == CHOOSE f \in [ds -> 1..n] : \A d, e \in ds : d # e => f[d] # f[e]
  IN  {InsertedAlert(InsertPayload(d, 0), idOf[d]) : d \in ds}

\* the periodic trigger of the sweep (request 1) racing with a user's status
\* updates (request 2), on a store that holds alerts already
Sweeper == 1
User == 2

\* the createAlert inputs of one type and severity, with and without an
\* auto_resolve_at
RaceInputs ==
  {d \in AlertInputs : d.type = "device_offline" /\ d.severity = "critical"}

InitSweepRace ==
  /\ clock = 0
  /\ \E ds \in SUBSET RaceInputs :
       /\ Cardinality(ds) \in 1..MaxAlerts
       /\ alerts = AlertsCreated(ds)
       /\ nextId = Cardinality(ds) + 1
  /\ rules = {}
  /\ actionLogs = <<>>
  /\ schedLog = <<>>
  /\ nextRuleId = 1
  /\ pc = [p \in Procs2 |-> "idle"]
  /\ frame = [p \in Procs2 |-> EmptyFrame]
  /\ result = [p \in Procs2 |-> NoResult]
  /\ calls = 0
  /\ RealtimeInit

NextSweepRace ==
  \/ Tick
  \/ \E id \in AlertIds, a \in StatusArgs, o \in Outcomes :
        UpdateAlertStatus(User, id, a[1], a[2], a[3], o)
  \/ \E ids \in IdLists, s \in Statuses, u \in Users, o \in Outcomes :
        BulkUpdateAlerts(User, ids, s, u, o)
  \/ \E o \in Outcomes : ProcessAutoResolveAlerts(Sweeper, o)
  \/ \E o \in Outcomes : SweepBulkUpdate(Sweeper, o)

SpecSweepRace == InitSweepRace /\ [][NextSweepRace]_vars

\* --------------------------------------------- the sweep on a periodic timer
\* a timer calls processAutoResolveAlerts for ever (request Sweeper) while a
\* user creates alerts that carry an auto_resolve_at and updates them
NextPeriodic ==
  \/ Tick
  \/ \E d \in RaceInputs, o \in Outcomes : CreateAlert(User, d, o)
  \/ \E o \in Outcomes : LoadRules(User, o)
  \/ CreateAlertReturn(User)
  \/ \E id \in AlertIds, a \in StatusArgs, o \in Outcomes :
        UpdateAlertStatus(User, id, a[1], a[2], a[3], o)
  \/ \E o \in Outcomes : PeriodicSweep(Sweeper, o)
  \/ \E o \in Outcomes : SweepBulkUpdate(Sweeper, o)

InitPeriodic ==
  /\ clock = 0
  /\ alerts = {}
  /\ rules = {}
  /\ actionLogs = <<>>
  /\ schedLog = <<>>
  /\ nextId = 1
  /\ nextRuleId = 1
  /\ pc = [p \in Procs2 |-> "idle"]
  /\ frame = [p \in Procs2 |-> EmptyFrame]
  /\ result = [p \in Procs2 |-> NoResult]
  /\ calls = 0
  /\ RealtimeInit

\* the clock advances, and the timer's sweep meets an accepted select and an
\* accepted update again and again
SpecPeriodic ==
  /\ InitPeriodic
  /\ [][NextPeriodic]_vars
  /\ WF_vars(Tick)
  /\ SF_vars(PeriodicSweep(Sweeper, "ok"))
  /\ SF_vars(SweepBulkUpdate(Sweeper, "ok"))

\* ------------------------------------------- mobile sync (MobileAppService)
\* readings a mobile app sends (MobileAppReading): pH and risk in tenths,
\* turbidity in NTU; id, prediction_result, user_report and images are
\* optional
CleanReading ==
  [id |-> NullStr, ph |-> 70, turbidity |-> 5, prediction_result |-> NullTime,
   user_report |-> FALSE, images |-> 0]
AcidReading ==
  [id |-> "r1", ph |-> 60, turbidity |-> 5, prediction_result |-> 3,
   user_report |-> TRUE, images |-> 1]
TurbidReading ==
  [id |-> "r2", ph |-> 70, turbidity |-> 11, prediction_result |-> 8,
   user_report |-> FALSE, images |-> 0]
ReadingInputs == {CleanReading, AcidReading, TurbidReading}
ReadingLists == UNION {[1..n -> ReadingInputs] : n \in 0..MaxReadings}

\* overall risk a prediction of mlModelService can carry, in tenths
Risks == {3, 8}

\* checkAndCreateAlerts: the alerts it collects for a reading
AlertsFor(reading, prediction) ==
  (IF reading.ph < 65 \/ reading.ph > 85
     THEN <<[type |-> "water_quality", severity |-> "high"]>> ELSE <<>>)
  \o (IF reading.turbidity > 10
        THEN <<[type |-> "water_quality", severity |-> "high"]>> ELSE <<>>)
  \o (IF prediction # NullTime /\ prediction > 7
        THEN <<[type |-> "disease_risk", severity |-> "critical"]>>
        ELSE <<>>)

\* { ...alert, location, device_id, reading_id, status: 'active',
\*   created_at: new Date().toISOString() }
MobileAlertPayload(alert, now) ==
  Spread(alert, [status |-> "active", created_at |-> now])

\* the most alerts the readings of a call can raise
Raisable(readings) ==
  LET n(r) == Len(AlertsFor(r, IF r.prediction_result = NullTime
                                 THEN 8 ELSE r.prediction_result))
      sum[i \in 0..Len(readings)] ==
        IF i = 0 THEN 0 ELSE sum[i - 1] + n(readings[i])
  IN  sum[Len(readings)]

\* the awaits of processSingleReading, in the order of the code
Stages == <<"sr_insert", "sr_predict", "sr_prediction", "sr_report",
            "sr_image", "sr_alert", "sr_device">>

\* the locals of syncReadings and of the processSingleReading it is in
SyncFrame(readings) ==
  [op |-> "syncReadings", readings |-> readings, i |-> 1,
   prediction |-> NullTime, imagesLeft |-> 0, k |-> 1,
   processedCount |-> 0, errorCount |-> 0, errors |-> <<>>, failed |-> FALSE]

\* does the await of stage n have anything to do for the current reading
Due(fr, n) ==
  LET r == fr.readings[fr.i]
  IN  CASE n = 2 -> r.prediction_result = NullTime
        [] n = 3 -> fr.prediction # NullTime
        [] n = 4 -> r.user_report
        [] n = 5 -> fr.imagesLeft > 0
        [] n = 6 -> fr.k <= Len(AlertsFor(r, fr.prediction))
        [] OTHER -> TRUE

\* the next await of processSingleReading from stage n on
Following(fr, n) ==
  Stages[CHOOSE m \in n..7 : Due(fr, m) /\ \A l \in n..(m - 1) : ~Due(fr, l)]

\* for (const reading of readings): the next iteration, or the end of the loop
StartReading(fr, i) ==
  IF i > Len(fr.readings)
    THEN [pc |-> "sr_log", fr |-> [fr EXCEPT !.i = i]]
    ELSE [pc |-> "sr_insert",
          fr |-> [fr EXCEPT !.i = i,
                            !.prediction = fr.readings[i].prediction_result,
                            !.imagesLeft = fr.readings[i].images,
                            !.k = 1]]

\* processSingleReading resolved: processedCount++
ReadingDone(fr) ==
  StartReading([fr EXCEPT !.processedCount = fr.processedCount + 1], fr.i + 1)

ReadingFailedEndsLoop(fr, message) ==
  StartReading([fr EXCEPT !.errorCount = fr.errorCount + 1,
                          !.errors = Append(fr.errors,
                             [reading_id |-> fr.readings[fr.i].id,
                              error |-> message]),
                          !.failed = TRUE],
               Len(fr.readings) + 1)

\* the catch of the loop body: errorCount++, errors.push(...)
ReadingFailed(fr, message) ==
  StartReading([fr EXCEPT !.errorCount = fr.errorCount + 1,
                          !.errors = Append(fr.errors,
                             [reading_id |->
                                IF fr.readings[fr.i].id = NullStr
                                  THEN "unknown" ELSE fr.readings[fr.i].id,
                              error |-> message]),
                          !.failed = TRUE],
               fr.i + 1)

\* error instanceof Error ? error.message : 'Unknown error'
ErrorText(o) == IF o = "throw" THEN "Failed to fetch" ELSE "Unknown error"

\* request p moves on inside syncReadings
SyncMove(p, to) ==
  /\ pc' = [pc EXCEPT ![p] = to.pc]
  /\ frame' = [frame EXCEPT ![p] = to.fr]

\* an await of processSingleReading whose returned error is not looked at:
\* a rejected promise fails the reading
AfterUnchecked(fr, o, n) ==
  IF o = "throw" THEN ReadingFailed(fr, ErrorText(o))
                 ELSE [pc |-> Following(fr, n), fr |-> fr]

\* syncReadings up to its first await
SyncReadings(p, readings) ==
  /\ CanStart(p)
  /\ nextId + Raisable(readings) <= MaxAlerts + 1
  /\ Started(p)
  /\ SyncMove(p, StartReading(SyncFrame(readings), 1))
  /\ result' = [result EXCEPT ![p] = NoResult]
  /\ UNCHANGED <<clock, alerts, rules, actionLogs, schedLog, nextId,
                 nextRuleId>>
  /\ UNCHANGED realtime

\* 1. insert into water_quality_readings; if (readingError) throw readingError
InsertReading(p, o) ==
  /\ pc[p] = "sr_insert"
  /\ SyncMove(p, IF o = "ok"
                   THEN [pc |-> Following(frame[p], 2), fr |-> frame[p]]
                   ELSE ReadingFailed(frame[p], ErrorText(o)))
  /\ UNCHANGED <<clock, alerts, rules, actionLogs, schedLog, nextId,
                 nextRuleId, result, calls>>
  /\ UNCHANGED realtime

\* 2. mlModelService.predictDiseaseRisk inside its own try / catch
PredictDiseaseRisk(p, o, risk) ==
  /\ pc[p] = "sr_predict"
  /\ LET fr == [frame[p] EXCEPT !.prediction =
                  IF o = "ok" THEN risk ELSE NullTime]
     IN  SyncMove(p, [pc |-> Following(fr, 3), fr |-> fr])
  /\ UNCHANGED <<clock, alerts, rules, actionLogs, schedLog, nextId,
                 nextRuleId, result, calls>>
  /\ UNCHANGED realtime

\* 3. insert into disease_predictions
InsertDiseasePrediction(p, o) ==
  /\ pc[p] = "sr_prediction"
  /\ SyncMove(p, AfterUnchecked(frame[p], o, 4))
  /\ UNCHANGED <<clock, alerts, rules, actionLogs, schedLog, nextId,
                 nextRuleId, result, calls>>
  /\ UNCHANGED realtime

\* 4. insert into user_reports
InsertUserReport(p, o) ==
  /\ pc[p] = "sr_report"
  /\ SyncMove(p, AfterUnchecked(frame[p], o, 5))
  /\ UNCHANGED <<clock, alerts, rules, actionLogs, schedLog, nextId,
                 nextRuleId, result, calls>>
  /\ UNCHANGED realtime

\* 5. insert into reading_attachments, once per image
InsertAttachment(p, o) ==
  /\ pc[p] = "sr_image"
  /\ SyncMove(p, AfterUnchecked(
                   [frame[p] EXCEPT !.imagesLeft = frame[p].imagesLeft - 1],
                   o, 5))
  /\ UNCHANGED <<clock, alerts, rules, actionLogs, schedLog, nextId,
                 nextRuleId, result, calls>>
  /\ UNCHANGED realtime

\* 6. checkAndCreateAlerts: one insert into alerts per collected alert; the
\* returned error is not looked at
CheckAndCreateAlerts(p, o) ==
  /\ pc[p] = "sr_alert"
  /\ LET fr == frame[p]
         alert == AlertsFor(fr.readings[fr.i], fr.prediction)[fr.k]
         row == InsertedAlert(MobileAlertPayload(alert, clock), nextId)
     IN  /\ alerts' = IF o = "ok" THEN alerts \cup {row} ELSE alerts
         /\ nextId' = IF o = "ok" THEN nextId + 1 ELSE nextId
         /\ SyncMove(p, AfterUnchecked([fr EXCEPT !.k = fr.k + 1], o, 6))
  /\ UNCHANGED <<clock, rules, actionLogs, schedLog, nextRuleId, result,
                 calls>>
  /\ UNCHANGED realtime

\* 7. update iot_devices set last_seen, status
UpdateDeviceLastSeen(p, o) ==
  /\ pc[p] = "sr_device"
  /\ SyncMove(p, IF o = "throw" THEN ReadingFailed(frame[p], ErrorText(o))
                                ELSE ReadingDone(frame[p]))
  /\ UNCHANGED <<clock, alerts, rules, actionLogs, schedLog, nextId,
                 nextRuleId, result, calls>>
  /\ UNCHANGED realtime

\* errors: errors.length > 0 ? errors : undefined
ErrorsField(errors) ==
  [defined |-> Len(errors) > 0, list |-> errors]

\* the SyncResponse returned after the loop
SyncResponse(fr) ==
  [op |-> "syncReadings", kind |-> "object",
   success |-> (fr.errorCount = 0),
   processed_count |-> fr.processedCount,
   error_count |-> fr.errorCount,
   errors |-> ErrorsField(fr.errors)]

\* logSyncOperation keeps every failure of its insert to itself; then the
\* response is returned
LogSyncOperation(p, o) ==
  /\ pc[p] = "sr_log"
  /\ pc' = [pc EXCEPT ![p] = "idle"]
  /\ result' = [result EXCEPT ![p] = SyncResponse(frame[p])]
  /\ UNCHANGED <<clock, alerts, rules, actionLogs, schedLog, nextId,
                 nextRuleId, frame, calls>>
  /\ UNCHANGED realtime

\* ----------------------------- development test data (RealtimeDataService)
\* the test alert of sendTestData
TestAlertPayload ==
  [type |-> "water_quality", severity |-> "medium", status |-> "active"]

\* sendTestData up to its first await: outside development it returns at
\* once; the returned error of the test reading's insert is not looked at
SendTestData(p, development, o) ==
  /\ CanStart(p)
  /\ nextId <= MaxAlerts
  /\ Started(p)
  /\ frame' = [frame EXCEPT ![p] =
       [StartFrame("sendTestData") EXCEPT !.failed = (o # "ok")]]
  /\ IF development /\ o # "throw"
       THEN /\ pc' = [pc EXCEPT ![p] = "test_alert"]
            /\ result' = [result EXCEPT ![p] = NoResult]
       ELSE /\ pc' = pc
            /\ result' = [result EXCEPT ![p] = ResultVoid("sendTestData")]
  /\ UNCHANGED <<clock, alerts, rules, actionLogs, schedLog, nextId,
                 nextRuleId>>
  /\ UNCHANGED realtime

\* second await: insert of the test alert
SendTestAlert(p, o) ==
  /\ pc[p] = "test_alert"
  /\ alerts' = IF o = "ok"
                 THEN alerts \cup {InsertedAlert(TestAlertPayload, nextId)}
                 ELSE alerts
  /\ nextId' = IF o = "ok" THEN nextId + 1 ELSE nextId
  /\ frame' = [frame EXCEPT ![p].failed = frame[p].failed \/ o # "ok"]
  /\ pc' = [pc EXCEPT ![p] = "idle"]
  /\ result' = [result EXCEPT ![p] = ResultVoid("sendTestData")]
  /\ UNCHANGED <<clock, rules, actionLogs, schedLog, nextRuleId, calls>>
  /\ UNCHANGED realtime

\* ------------------------------------------------ every source of alerts
\* createAlert with its rule processing, the mobile sync and the test data,
\* with an enabled rule for the alerts the mobile sync raises and another one
InitIngest ==
  /\ clock = 0
  /\ alerts = {}
  /\ rules = RulesCreated({EmailRule, PushWebhookRule})
  /\ actionLogs = <<>>
  /\ schedLog = <<>>
  /\ nextId = 1
  /\ nextRuleId = 3
  /\ pc = [p \in Procs |-> "idle"]
  /\ frame = [p \in Procs |-> EmptyFrame]
  /\ result = [p \in Procs |-> NoResult]
  /\ calls = 0
  /\ RealtimeInit

NextIngest ==
  \/ Tick
  \/ \E p \in Procs, d \in RaceAlertInputs, o \in Outcomes :
        CreateAlert(p, d, o)
  \/ \E p \in Procs, o \in Outcomes : LoadRules(p, o)
  \/ \E p \in Procs, o \in Outcomes, e \in Thrown :
        ExecuteAlertAction(p, o, e)
  \/ \E p \in Procs, o \in Outcomes : ExecuteAlertActionCatch(p, o)
  \/ \E p \in Procs : ScheduleEscalation(p)
  \/ \E p \in Procs, o \in Outcomes : ScheduleAutoResolve(p, o)
  \/ \E p \in Procs : CreateAlertReturn(p)
  \/ \E p \in Procs, rs \in ReadingLists : SyncReadings(p, rs)
  \/ \E p \in Procs, o \in Outcomes : InsertReading(p, o)
  \/ \E p \in Procs, o \in {"ok", "throw"}, risk \in Risks :
        PredictDiseaseRisk(p, o, risk)
  \/ \E p \in Procs, o \in Outcomes : InsertDiseasePrediction(p, o)
  \/ \E p \in Procs, o \in Outcomes : InsertUserReport(p, o)
  \/ \E p \in Procs, o \in Outcomes : InsertAttachment(p, o)
  \/ \E p \in Procs, o \in Outcomes : CheckAndCreateAlerts(p, o)
  \/ \E p \in Procs, o \in Outcomes : UpdateDeviceLastSeen(p, o)
  \/ \E p \in Procs, o \in Outcomes : LogSyncOperation(p, o)
  \/ \E p \in Procs, development \in BOOLEAN, o \in Outcomes :
        SendTestData(p, development, o)
  \/ \E p \in Procs, o \in Outcomes : SendTestAlert(p, o)

SpecIngest == InitIngest /\ [][NextIngest]_vars

\* ------------------------------------ realtime data (RealtimeDataService)
Tables == {"water_quality_readings", "alerts", "iot_devices",
           "disease_predictions"}
EventTypes == {"INSERT", "UPDATE", "DELETE"}
EventFilters == EventTypes \cup {"*"}

\* the other variables of the model are left alone by the realtime service
AlertService ==
  <<clock, alerts, rules, actionLogs, schedLog, nextId, nextRuleId, pc,
    frame, result, calls>>

\* a RealtimeSubscription / the handler of its channel; callback names the
\* caller's callback the handler ends up calling, by the id that the public
\* subscribe call returned for it
Subscription(id, table, event, callback) ==
  [id |-> id, table |-> table, event |-> event, callback |-> callback]

\* subscribeToTable on the pair st = [rt, io]: the id is generated first;
\* inside the try the channel is created with its handler and joined and the
\* subscription is put into the map; on a throw '' is returned
SubscribedToTable(st, table, event, callback, o) ==
  LET id == st.io.nextSub
      sub == Subscription(id, table, event, callback)
  IN  IF o = "ok"
        THEN [rt |-> [st.rt EXCEPT !.subscriptions = @ \cup {sub}],
              io |-> [st.io EXCEPT !.nextSub = id + 1,
                                   !.channels = @ \cup {sub}]]
        ELSE [rt |-> st.rt, io |-> [st.io EXCEPT !.nextSub = id + 1]]

\* the subscribeToTable calls of a list of <<table, event>>, one after another
RECURSIVE SubscribedToAll(_, _, _, _)
SubscribedToAll(st, pairs, callback, os) ==
  IF pairs = <<>> THEN st
  ELSE SubscribedToAll(
         SubscribedToTable(st, pairs[1][1], pairs[1][2], callback, os[1]),
         Tail(pairs), callback, Tail(os))

\* a public subscribe call starts; no table event is being delivered
SubscribeCall(st, id, returned) ==
  [st.io EXCEPT !.subscribes = @ + 1,
                !.handed = IF returned THEN @ \cup {id} ELSE @,
                !.invoked = {}]

SubscribeToTable(table, event, o) ==
  /\ rtio.subscribes < MaxSubscribes
  /\ LET id == rtio.nextSub
         st == SubscribedToTable([rt |-> rt, io |-> rtio], table, event, id, o)
     IN  /\ rt' = st.rt
         /\ rtio' = SubscribeCall(st, id, o = "ok")
  /\ UNCHANGED AlertService

\* tables and events subscribeToLiveUpdates subscribes to
LiveUpdateTables ==
  << <<"water_quality_readings", "INSERT">>, <<"alerts", "*">>,
     <<"iot_devices", "UPDATE">>, <<"disease_predictions", "INSERT">> >>

\* updateCallbacks.set(callbackId, callback), four subscribeToTable calls
\* whose ids are dropped, return callbackId
SubscribeToLiveUpdates(os) ==
  /\ rtio.subscribes < MaxSubscribes
  /\ LET callbackId == rtio.nextSub
         st0 == [rt |-> [rt EXCEPT !.updateCallbacks = @ \cup {callbackId}],
                 io |-> [rtio EXCEPT !.nextSub = callbackId + 1]]
         st == SubscribedToAll(st0, LiveUpdateTables, callbackId, os)
     IN  /\ rt' = st.rt
         /\ rtio' = SubscribeCall(st, callbackId, TRUE)
  /\ UNCHANGED AlertService

\* tables and events subscribeToDashboardMetrics subscribes to
MetricsTables ==
  << <<"water_quality_readings", "INSERT">>, <<"alerts", "*">>,
     <<"iot_devices", "UPDATE">> >>

\* metricsCallbacks.set(callbackId, callback), the initial load, three
\* subscribeToTable calls whose ids are dropped, return callbackId
SubscribeToDashboardMetrics(os) ==
  /\ rtio.subscribes < MaxSubscribes
  /\ LET callbackId == rtio.nextSub
         st0 == [rt |-> [rt EXCEPT !.metricsCallbacks = @ \cup {callbackId}],
                 io |-> [rtio EXCEPT !.nextSub = callbackId + 1]]
         st == SubscribedToAll(st0, MetricsTables, callbackId, os)
     IN  /\ rt' = st.rt
         /\ rtio' = SubscribeCall(st, callbackId, TRUE)
  /\ UNCHANGED AlertService

\* the maps after unsubscribe(subscriptionId) found something to delete
Unsubscribed(r, subscriptionId) ==
  IF \E sub \in r.subscriptions : sub.id = subscriptionId
    THEN [r EXCEPT !.subscriptions = {sub \in @ : sub.id # subscriptionId}]
    ELSE IF subscriptionId \in r.updateCallbacks
      THEN [r EXCEPT !.updateCallbacks = @ \ {subscriptionId}]
      ELSE [r EXCEPT !.metricsCallbacks = @ \ {subscriptionId}]

\* unsubscribe(subscriptionId): a subscription of that id has its channel
\* left and is deleted; else a callback of that id is deleted; a throw of
\* channel.unsubscribe() is caught and false is returned
Unsubscribe(subscriptionId, o) ==
  /\ subscriptionId \in rtio.handed \cup {0}
  /\ LET known == \/ \E sub \in rt.subscriptions : sub.id = subscriptionId
                  \/ subscriptionId \in rt.updateCallbacks
                  \/ subscriptionId \in rt.metricsCallbacks
         inMap == \E sub \in rt.subscriptions : sub.id = subscriptionId
         returned == known /\ ~(inMap /\ o = "throw")
     IN  /\ rt' = IF returned THEN Unsubscribed(rt, subscriptionId) ELSE rt
         /\ rtio' = [rtio EXCEPT
              !.channels = IF returned
                             THEN {c \in @ : c \in rt'.subscriptions
                                             \/ c \notin rt.subscriptions}
                             ELSE @,
              !.released = IF returned THEN @ \cup {subscriptionId} ELSE @,
              !.invoked = {}]
  /\ UNCHANGED AlertService

\* unsubscribeAll(): every channel of the map is left and the three maps
\* are cleared; a throw of channel.unsubscribe() ends the forEach (in
\* insertion order), with the channels before it left and the maps as they
\* were
UnsubscribeAll(o) ==
  /\ \E thrower \in {sub.id : sub \in rt.subscriptions} \cup {0} :
       LET left == IF o = "ok"
                     THEN rt.subscriptions
                     ELSE {sub \in rt.subscriptions : sub.id < thrower}
       IN  /\ o = "ok" <=> thrower = 0
           /\ rt' = IF o = "ok"
                      THEN [subscriptions |-> {}, updateCallbacks |-> {},
                            metricsCallbacks |-> {}]
                      ELSE rt
           /\ rtio' = [rtio EXCEPT !.channels = @ \ left, !.invoked = {}]
  /\ UNCHANGED AlertService

\* handleTableUpdate: for these tables every metrics callback gets a load
MetricsSources == {"water_quality_readings", "alerts", "iot_devices"}

\* a row event of the store: every joined channel on that table and event
\* runs its handler: this.handleTableUpdate(payload, table); callback(payload)
TableEvent(table, type) ==
  /\ LET hit == {c \in rtio.channels :
                    c.table = table /\ c.event \in {type, "*"}}
     IN  rtio' = [rtio EXCEPT !.invoked =
           {c.callback : c \in hit}
           \cup (IF hit # {} /\ table \in MetricsSources
                   THEN rt.metricsCallbacks ELSE {})]
  /\ UNCHANGED <<rt, AlertService>>

InitRealtime ==
  /\ clock = 0
  /\ alerts = {}
  /\ rules = {}
  /\ actionLogs = <<>>
  /\ schedLog = <<>>
  /\ nextId = 1
  /\ nextRuleId = 1
  /\ pc = [p \in Procs |-> "idle"]
  /\ frame = [p \in Procs |-> EmptyFrame]
  /\ result = [p \in Procs |-> NoResult]
  /\ calls = 0
  /\ RealtimeInit

NextRealtime ==
  \/ \E t \in Tables, e \in EventFilters, o \in {"ok", "throw"} :
        SubscribeToTable(t, e, o)
  \/ \E os \in [1..4 -> {"ok", "throw"}] : SubscribeToLiveUpdates(os)
  \/ \E os \in [1..3 -> {"ok", "throw"}] : SubscribeToDashboardMetrics(os)
  \/ \E id \in 0..(5 * MaxSubscribes), o \in {"ok", "throw"} :
        Unsubscribe(id, o)
  \/ \E o \in {"ok", "throw"} : UnsubscribeAll(o)
  \/ \E t \in Tables, e \in EventTypes : TableEvent(t, e)

SpecRealtime == InitRealtime /\ [][NextRealtime]_vars

\* ------------------------------------------------------------- properties
\* rows of alert_action_logs written for one alert
LogRowsOf(alertId) ==
  {i \in DOMAIN actionLogs : actionLogs[i].alert_id = alertId}

\* the stored rules that are enabled and carry the alert's type and severity
MatchingRules(alert) ==
  {r \in rules : /\ r.enabled = TRUE
                 /\ r.type = alert.type
                 /\ r.severity = alert.severity}

RECURSIVE ActionCount(_)
ActionCount(rs) ==
  IF rs = {} THEN 0
  ELSE LET r == CHOOSE x \in rs : TRUE
       IN  Len(r.actions) + ActionCount(rs \ {r})

\* createAlert has returned and its insert had been accepted
CreateReturned(p) ==
  /\ pc[p] = "idle"
  /\ frame[p].op = "createAlert"
  /\ frame[p].insertOk

\* this step ends an executeAlertAction attempt of request p
AttemptEnds(p) ==
  /\ pc[p] \in {"pa_work", "exec_catch"}
  /\ frame[p].work # <<>>
  /\ Head(frame[p].work).kind = "action"
  /\ frame'[p].work # frame[p].work

\* C1: every executeAlertAction attempt adds exactly one row to
\* alert_action_logs, whatever the store answers: "sent" when the try block
\* went through, "failed" with a non-empty error_message when it did not.
C1_ExactlyOneLogRowPerAttempt ==
  [][\A p \in Procs : AttemptEnds(p) =>
        /\ Len(actionLogs') = Len(actionLogs) + 1
        /\ LET row == actionLogs'[Len(actionLogs')]
           IN  /\ row.alert_id = frame[p].data.id
               /\ pc[p] = "pa_work" => row.status = "sent"
               /\ pc[p] = "exec_catch" =>
                    /\ row.status = "failed"
                    /\ row.error_message \notin {NullStr, ""}]_vars

C3_CreateSucceedsWhenInsertSucceeds ==
  \A p \in Procs : CreateReturned(p) =>
     /\ result[p].op = "createAlert"
     /\ result[p].success = TRUE
     /\ result[p].alert = frame[p].data
     /\ \E a \in alerts :
          /\ a.id = frame[p].data.id
          /\ [a EXCEPT !.auto_resolve_at = frame[p].data.auto_resolve_at]
               = frame[p].data

\* C3 witness: createAlert returned success although a later step failed
C3_Witness ==
  \E p \in Procs :
     /\ CreateReturned(p)
     /\ frame[p].failed
     /\ result[p].success
     /\ MatchingRules(frame[p].data) # {}

\* C4: with no store failure, the rows logged for a new alert number the
\* actions of all enabled rules of its type and severity, not of the first.
C4_AllMatchingRulesApply ==
  \A p \in Procs : (CreateReturned(p) /\ ~frame[p].failed) =>
     Cardinality(LogRowsOf(frame[p].data.id))
        = ActionCount(MatchingRules(frame[p].data))

\* C4 witness: two matching rules with one action each gave two rows
C4_Witness ==
  \E p \in Procs :
     /\ CreateReturned(p)
     /\ ~frame[p].failed
     /\ Cardinality(MatchingRules(frame[p].data)) = 2
     /\ \A r \in MatchingRules(frame[p].data) : Len(r.actions) = 1
     /\ Cardinality(LogRowsOf(frame[p].data.id)) = 2

\* C5: a rule that is disabled or differs from the alert in type or severity
\* contributes nothing: every logged row, every scheduled escalation and every
\* scheduled auto-resolve of the alert comes from an enabled matching rule.
C5_OnlyMatchingRulesAct ==
  \A p \in Procs : (frame[p].op = "createAlert" /\ frame[p].insertOk) =>
     LET alert == frame[p].data
         M == MatchingRules(alert)
     IN  /\ \A i \in LogRowsOf(alert.id) :
              \E r \in M : \E k \in DOMAIN r.actions :
                 r.actions[k].type = actionLogs[i].action_type
         /\ \A i \in DOMAIN schedLog :
              (schedLog[i].alert_id = alert.id) =>
                 \E r \in M :
                    \/ /\ schedLog[i].kind = "escalate"
                       /\ r.escalation_rules # <<>>
                       /\ r.escalation_rules[1].delay_minutes = schedLog[i].arg
                    \/ /\ schedLog[i].kind = "autoresolve"
                       /\ r.auto_resolve_after_minutes = schedLog[i].arg
         /\ (\A r \in M : r.auto_resolve_after_minutes \in {NullTime, 0}) =>
              \A a \in alerts :
                 a.id = alert.id => a.auto_resolve_at = alert.auto_resolve_at

\* C5 witness: an alert was processed while a disabled rule of its type and
\* severity, with actions, escalation and auto-resolve, was stored
C5_Witness ==
  \E p \in Procs :
     /\ CreateReturned(p)
     /\ ~frame[p].failed
     /\ \E r \in rules :
          /\ ~r.enabled
          /\ r.type = frame[p].data.type
          /\ r.severity = frame[p].data.severity
          /\ Len(r.actions) > 0
          /\ r.escalation_rules # <<>>
     /\ \E r \in rules : r.type # frame[p].data.type \/ r.enabled


\* the alert as a sweep at time t leaves it when it resolves it
SystemResolved(a, t) ==
  [a EXCEPT !.status = "resolved", !.resolved_by = "system",
            !.resolved_at = t, !.updated_at = t]

\* the update step of a sweep of request p whose store operations all succeed
SweepWrites(p) ==
  /\ pc[p] = "sweep_bulk"
  /\ pc'[p] = "idle"
  /\ ~frame'[p].failed

\* a sweep of request p that returns straight after its (successful) select
SweepFindsNothing(p) ==
  /\ pc[p] = "idle"
  /\ calls' = calls + 1
  /\ frame'[p].op = "processAutoResolveAlerts"
  /\ pc'[p] = "idle"
  /\ ~frame'[p].failed

\* C6: a sweep reading the clock at `now` whose store operations succeed
\* resolves exactly the active alerts with a non-null auto_resolve_at <= now,
\* as "system" and stamped with the time of the write, and leaves every other
\* alert as it was.
C6_SweepResolvesExactlyExpired ==
  [][\A p \in Procs :
       /\ SweepWrites(p) =>
            /\ frame[p].now <= clock
            /\ alerts' =
                 {IF /\ a.status = "active"
                     /\ a.auto_resolve_at # NullTime
                     /\ a.auto_resolve_at <= frame[p].now
                    THEN SystemResolved(a, clock) ELSE a : a \in alerts}
       /\ SweepFindsNothing(p) =>
            /\ alerts' = alerts
            /\ \A a \in alerts :
                 ~(/\ a.status = "active"
                   /\ a.auto_resolve_at # NullTime
                   /\ a.auto_resolve_at <= clock)]_vars

\* C6 witness: a sweep resolved an expired alert as "system" and left an
\* active alert that had not expired
C6_Witness ==
  \E p \in Procs :
     /\ pc[p] = "idle"
     /\ frame[p].op = "processAutoResolveAlerts"
     /\ ~frame[p].failed
     /\ \E a \in alerts, b \in alerts :
          /\ a.id \in frame[p].ids
          /\ a.status = "resolved" /\ a.resolved_by = "system"
          /\ a.resolved_at >= frame[p].now
          /\ b.status = "active"

\* a step of a sweep of request p that directly follows another sweep, no
\* active alert having expired after the first sweep read the clock
SecondSweepStep(p) ==
  \/ /\ pc[p] = "idle"
     /\ frame[p].op = "processAutoResolveAlerts"
     /\ calls' = calls + 1
     /\ frame'[p].op = "processAutoResolveAlerts"
     /\ \A a \in alerts :
          ~(/\ a.status = "active"
            /\ a.auto_resolve_at # NullTime
            /\ a.auto_resolve_at > frame[p].now
            /\ a.auto_resolve_at <= clock)
  \/ /\ pc[p] = "sweep_bulk"
     /\ frame[p].afterSweep
     /\ \A a \in alerts :
          ~(/\ a.status = "active"
            /\ a.auto_resolve_at # NullTime
            /\ a.auto_resolve_at > frame[p].prevNow
            /\ a.auto_resolve_at <= frame[p].now)

\* the first of the two sweeps had a store operation fail
FirstSweepFailed(p) ==
  IF pc[p] = "idle" THEN frame[p].failed ELSE frame[p].prevFailed

C8_BulkUpdatedCount ==
  \A p \in Procs : (pc[p] = "idle" /\ frame[p].op = "bulkUpdateAlerts") =>
     /\ result[p].op = "bulkUpdateAlerts"
     /\ ~frame[p].failed =>
          /\ result[p].success = TRUE
          /\ result[p].updated_count =
               Cardinality({a \in alerts : a.id \in frame[p].ids})
          /\ result[p].updated_count <= Cardinality(frame[p].ids)
     /\ frame[p].failed =>
          /\ result[p].success = FALSE
          /\ result[p].updated_count = 0

\* C8 witness: three ids, one of them missing from the store, two updated
C8_Witness ==
  \E p \in Procs :
     /\ pc[p] = "idle"
     /\ frame[p].op = "bulkUpdateAlerts"
     /\ Cardinality(frame[p].ids) = 3
     /\ result[p].success
     /\ result[p].updated_count = 2

\* C9: createAlert stores every alert with escalation_level = 0 and
\* created_at = the clock at the call, also when the input carries its own
\* escalation_level or created_at.
C9_CreateStampsLevelAndTime ==
  /\ \A a \in alerts : a.escalation_level = 0 /\ a.created_at \in 0..clock
  /\ \A p \in Procs : (frame[p].op = "createAlert" /\ frame[p].insertOk) =>
       /\ frame[p].data.escalation_level = 0
       /\ frame[p].data.created_at = frame[p].now
       /\ \A a \in alerts : a.id = frame[p].data.id =>
            /\ a.escalation_level = 0
            /\ a.created_at = frame[p].now

\* C9 witness: the input that carries escalation_level = 2 and created_at = 0
\* was stored by a call made at clock 1
C9_Witness ==
  \E p \in Procs :
     /\ frame[p].op = "createAlert" /\ frame[p].insertOk
     /\ frame[p].now = 1
     /\ \E a \in alerts :
          /\ a.id = frame[p].data.id
          /\ a.type = "device_offline" /\ a.severity = "high"

\* C10: a stored alert has resolved_at and resolved_by set exactly when its
\* status is resolved.
C10_ResolvedFieldsIffResolved ==
  \A a \in alerts :
     (a.resolved_at # NullTime /\ a.resolved_by # NullStr)
        <=> a.status = "resolved"

\* acknowledged_at and acknowledged_by are both set on the row
AckSet(a) == a.acknowledged_at # NullTime /\ a.acknowledged_by # NullStr

\* C11: a stored alert has acknowledged_at and acknowledged_by set exactly
\* when its status has been acknowledged at some point of its history: a row
\* enters the store with them set iff it enters as acknowledged, and after
\* every step they are set iff they were set before or the status is now
\* acknowledged.
C11_AckFieldsIffEverAcknowledged ==
  [][\A b \in alerts' :
        IF \E a \in alerts : a.id = b.id
          THEN \A a \in alerts : a.id = b.id =>
                  (AckSet(b) <=> (AckSet(a) \/ b.status = "acknowledged"))
          ELSE AckSet(b) <=> (b.status = "acknowledged")]_vars

\* C12: when createAlert has returned with no store failure, every enabled
\* matching rule that defines auto_resolve_after_minutes (0 included) had its
\* auto-resolve scheduled, and the stored auto_resolve_at is the clock of a
\* moment of the call plus the minutes of such a rule.
C12_AutoResolvePersistedForEveryDefinedDelay ==
  \A p \in Procs : (CreateReturned(p) /\ ~frame[p].failed) =>
     LET alert == frame[p].data
         D == {r \in MatchingRules(alert) :
                 r.auto_resolve_after_minutes # NullTime}
     IN  /\ \A r \in D : \E i \in DOMAIN schedLog :
              /\ schedLog[i].kind = "autoresolve"
              /\ schedLog[i].alert_id = alert.id
              /\ schedLog[i].arg = r.auto_resolve_after_minutes
         /\ D # {} =>
              \E a \in alerts : \E r \in D : \E t \in frame[p].now..clock :
                 /\ a.id = alert.id
                 /\ a.auto_resolve_at = t + r.auto_resolve_after_minutes

\* the last public operation of request p has returned to its caller
Returned(p) == pc[p] = "idle" /\ frame[p].op # "none"

\* the steps that carry on an operation of request p that is under way
Continue(p) ==
  \/ \E o \in Outcomes : LoadRules(p, o)
  \/ \E o \in Outcomes, e \in Thrown : ExecuteAlertAction(p, o, e)
  \/ \E o \in Outcomes : ExecuteAlertActionCatch(p, o)
  \/ ScheduleEscalation(p)
  \/ \E o \in Outcomes : ScheduleAutoResolve(p, o)
  \/ CreateAlertReturn(p)
  \/ \E o \in Outcomes : SweepBulkUpdate(p, o)

\* C13: no public operation lets an exception reach its caller: whatever the
\* store answered at any of its steps, an operation that is under way can
\* always carry on, and one that has returned has returned a value (a result
\* object, a list or void), never an exception.
C13_NoExceptionEscapes ==
  \A p \in Procs :
     /\ Returned(p) =>
          /\ result[p].op = frame[p].op
          /\ result[p].kind \in {"object", "list", "void"}
     /\ pc[p] # "idle" =>
          /\ result[p].kind = "none"
          /\ ENABLED Continue(p)

\* C13 witness: createAlert returned a result object after the insert of a
\* "sent" row had thrown (a "failed" row was written) and a later store
\* operation of the same call had failed too
C13_Witness ==
  \E p \in Procs :
     /\ CreateReturned(p)
     /\ frame[p].failed
     /\ result[p].kind = "object"
     /\ \E i \in LogRowsOf(frame[p].data.id) : actionLogs[i].status = "failed"
     /\ \E i \in LogRowsOf(frame[p].data.id) : actionLogs[i].status = "sent"

\* C14: every failure of a store operation inside a public operation is
\* reported to the caller as a result object with success = false.
C14_EveryStoreFailureReported ==
  \A p \in Procs : (Returned(p) /\ frame[p].failed) =>
     /\ result[p].kind = "object"
     /\ result[p].success = FALSE

\* this step is a createAlert call of request p whose insert the store rejects
CreateRejected(p) ==
  /\ pc[p] = "idle"
  /\ calls' = calls + 1
  /\ frame'[p].op = "createAlert"
  /\ ~frame'[p].insertOk

\* C15: when the store rejects the insert (returned error or rejection),
\* createAlert returns success = false with no alert, the alerts table is
\* unchanged, and rule processing does not start: no action-log row, no
\* scheduling, no auto_resolve_at.
C15_RejectedInsertCreatesNothing ==
  [][\A p \in Procs : CreateRejected(p) =>
        /\ pc'[p] = "idle"
        /\ result'[p].op = "createAlert"
        /\ result'[p].kind = "object"
        /\ result'[p].success = FALSE
        /\ result'[p].alert = NullAlertColumns
        /\ alerts' = alerts
        /\ actionLogs' = actionLogs
        /\ schedLog' = schedLog]_vars

\* C15 witness: a createAlert whose insert was rejected has returned while
\* enabled rules with actions and auto-resolve were stored
C15_Witness ==
  \E p \in Procs :
     /\ Returned(p)
     /\ frame[p].op = "createAlert"
     /\ ~frame[p].insertOk
     /\ result[p].success = FALSE
     /\ actionLogs = <<>> /\ schedLog = <<>> /\ alerts = {}
     /\ \E r \in rules : r.enabled /\ r.auto_resolve_after_minutes > 0

Orderings(rs) ==
  {s \in [1..Cardinality(rs) -> rs] :
      \A i, j \in DOMAIN s : i # j => s[i] # s[j]}

\* the auto_resolve_at the awaited calls of `work` leave on the alert when
\* the store accepts them all at clock `now`: that of the last
\* scheduleAutoResolve, or `before` when there is none
FinalAutoResolveAt(work, now, before) ==
  LET S == {i \in DOMAIN work : work[i].kind = "autoresolve"}
  IN  IF S = {} THEN before
      ELSE now + work[CHOOSE i \in S : \A j \in S : j <= i].arg

\* the channels and recipients of the rule templates
Channels ==
  {<<a.type, a.recipients>> :
     a \in {EmailAction, SmsAction, PushAction, WebhookAction}}

\* how many executeAlertAction calls `work` holds, per channel and recipients
WorkActionCounts(work) ==
  [c \in Channels |->
     Cardinality({i \in DOMAIN work : /\ work[i].kind = "action"
                                       /\ work[i].atype = c[1]
                                       /\ work[i].recipients = c[2]})]

\* how many rows the action log holds for the alert, per channel and recipients
LoggedActionCounts(alertId) ==
  [c \in Channels |->
     Cardinality({i \in LogRowsOf(alertId) :
                    /\ actionLogs[i].action_type = c[1]
                    /\ actionLogs[i].recipients = c[2]})]

\* C17: the outcome of processAlertActions does not depend on the order of
\* the matching rules: when createAlert has returned with no store failure
\* and the clock has not moved, the logged rows (as a multiset) and the
\* stored auto_resolve_at are those that every ordering of the enabled
\* matching rules leads to.
C17_RuleOrderIndependent ==
  \A p \in Procs :
     (CreateReturned(p) /\ ~frame[p].failed /\ frame[p].now = clock) =>
        LET alert == frame[p].data
        IN  \A order \in Orderings(MatchingRules(alert)) :
               LET work == WorkList(ApplicableRules(order, alert))
               IN  /\ LoggedActionCounts(alert.id) = WorkActionCounts(work)
                   /\ \A a \in alerts : a.id = alert.id =>
                        a.auto_resolve_at =
                          FinalAutoResolveAt(work, clock, alert.auto_resolve_at)

\* the scheduleEscalation calls made for the alert
EscalationsOf(alertId) ==
  {i \in DOMAIN schedLog : /\ schedLog[i].kind = "escalate"
                           /\ schedLog[i].alert_id = alertId}

\* C18: rule processing issues at most one escalation scheduling per alert,
\* also when several matching rules define escalation_rules.
C18_AtMostOneEscalationPerAlert ==
  \A id \in AlertIds : Cardinality(EscalationsOf(id)) <= 1

\* C19: no step lowers the escalation_level of an alert that is active.
C19_EscalationLevelNeverDecreasesWhileActive ==
  [][\A a \in alerts : \A b \in alerts' :
        (a.id = b.id /\ a.status = "active") =>
           b.escalation_level >= a.escalation_level]_vars

\* C19 witness: an active alert that rule processing has scheduled an
\* auto-resolve onto and that a status update has written since
C19_Witness ==
  \E a \in alerts :
     /\ a.status = "active"
     /\ a.updated_at # NullTime
     /\ a.auto_resolve_at # NullTime
     /\ a.escalation_level = 0
     /\ \E i \in DOMAIN schedLog :
          schedLog[i].kind = "autoresolve" /\ schedLog[i].alert_id = a.id

\* this step is an updateAlertStatus call of request p, with notes, that the
\* store accepts
UpdateWithNotes(p) ==
  /\ pc[p] = "idle"
  /\ calls' = calls + 1
  /\ frame'[p].op = "updateAlertStatus"
  /\ frame'[p].notes # ""
  /\ ~frame'[p].failed

\* C20: updateAlertStatus with notes merges them into the metadata of the
\* alert: every key the metadata held before (status_notes apart) is still
\* there with its value, and status_notes holds the notes.
C20_NotesMergedIntoMetadata ==
  [][\A p \in Procs : UpdateWithNotes(p) =>
        \A a \in alerts : a.id \in frame'[p].ids =>
           \E b \in alerts' :
              /\ b.id = a.id
              /\ <<"status_notes", frame'[p].notes>> \in b.metadata
              /\ \A kv \in a.metadata :
                   kv[1] # "status_notes" => kv \in b.metadata]_vars

\* the value an actor column has after an update that names `userId`: an
\* omitted userId leaves the column as it was
ActorAfter(before, userId) == IF userId = NullStr THEN before ELSE userId

\* this step is a call of the public operation op by request p that returns
\* at once, no store operation having failed
AcceptedCall(p, op) ==
  /\ pc[p] = "idle"
  /\ calls' = calls + 1
  /\ frame'[p].op = op
  /\ ~frame'[p].failed

RECURSIVE OneByOne(_, _, _, _, _)
\* the alerts table after updateAlertStatus(id, status, userId), without
\* notes and accepted by the store, for each id of ids, all at clock `now`
OneByOne(rows, ids, status, userId, now) ==
  IF ids = {} THEN rows
  ELSE LET id == CHOOSE i \in ids : TRUE
           upd == WithNotes(StatusUpdateData(status, userId, now), "")
       IN  OneByOne(UpdateWhereIdIn(rows, {id}, upd), ids \ {id},
                    status, userId, now)

\* C22: bulkUpdateAlerts(ids, status, actor) accepted by the store leaves
\* the alerts table as updateAlertStatus(id, status, actor) without notes,
\* called for each id of ids at the same clock reading, leaves it; ids that
\* match no alert change nothing in either.
C22_BulkEqualsOneByOne ==
  [][\A p \in Procs : AcceptedCall(p, "bulkUpdateAlerts") =>
      \A ids \in {frame'[p].ids}, s \in Statuses, u \in Users :
        BulkUpdateAlerts(p, ids, s, u, "ok") =>
           alerts' = OneByOne(alerts, ids, s, u, clock)]_vars

\* C22 witness: one bulkUpdateAlerts call, naming a missing id too, has
\* acknowledged two stored alerts for u1
C22_Witness ==
  \E p \in Procs :
     /\ Returned(p)
     /\ frame[p].op = "bulkUpdateAlerts"
     /\ ~frame[p].failed
     /\ (MaxAlerts + 1) \in frame[p].ids
     /\ Cardinality(alerts) = 2
     /\ \A a \in alerts : /\ a.id \in frame[p].ids
                          /\ a.status = "acknowledged"
                          /\ a.acknowledged_by = "u1"
                          /\ a.acknowledged_at = frame[p].now

\* alerts of the type and severity of `alert` that differ from it in the
\* other fields rule processing could look at
Variants(alert) ==
  {[alert EXCEPT !.metadata = m, !.status = st, !.auto_resolve_at = t] :
     m \in {{}, {<<"source", "sensor">>}}, st \in Statuses,
     t \in {NullTime, 1}}

\* the scheduleEscalation / scheduleAutoResolve calls `work` holds
WorkSchedules(work) ==
  {<<work[i].kind, work[i].arg>> :
     i \in {j \in DOMAIN work : work[j].kind # "action"}}

\* the scheduleEscalation / scheduleAutoResolve calls made for the alert
SchedulesOf(alertId) ==
  {<<schedLog[i].kind, schedLog[i].arg>> :
     i \in {j \in DOMAIN schedLog : schedLog[j].alert_id = alertId}}

\* C23: only type and severity gate rule matching: when createAlert has
\* returned with no store failure, the actions executed and the schedulings
\* made for its alert are those the stored rules give for every alert of the
\* same type and severity, whatever its metadata, status or auto_resolve_at
\* and whatever conditions the rules carry.
C23_OnlyTypeAndSeverityGate ==
  \A p \in Procs : (CreateReturned(p) /\ ~frame[p].failed) =>
     \A x \in Variants(frame[p].data) : \A order \in RuleOrders(rules) :
        LET work == WorkList(ApplicableRules(order, x))
        IN  /\ LoggedActionCounts(frame[p].data.id) = WorkActionCounts(work)
            /\ SchedulesOf(frame[p].data.id) = WorkSchedules(work)

\* C23 witness: an alert without metadata had the action of a rule executed
\* whose conditions ask for source = sensor
C23_Witness ==
  \E p \in Procs :
     /\ CreateReturned(p)
     /\ ~frame[p].failed
     /\ frame[p].data.metadata = {}
     /\ \E r \in MatchingRules(frame[p].data) : r.conditions = SourceIsSensor
     /\ \E i \in LogRowsOf(frame[p].data.id) :
          actionLogs[i].action_type = "email"

\* C28: an accepted updateAlertStatus returns success = true; it leaves
\* every alert with another id as it was (the whole table when no alert has
\* the id), and of the alert with the id it leaves type, severity,
\* escalation_level, auto_resolve_at and created_at, the metadata unless
\* notes were given, and the acknowledged / resolved columns that are not
\* those of the new status.
C28_UpdateTouchesOnlyItsColumns ==
  [][\A p \in Procs : AcceptedCall(p, "updateAlertStatus") =>
        /\ result'[p].kind = "object" /\ result'[p].success = TRUE
        /\ Cardinality(alerts') = Cardinality(alerts)
        /\ (\A a \in alerts : a.id \notin frame'[p].ids) => alerts' = alerts
        /\ \A a \in alerts :
             IF a.id \notin frame'[p].ids THEN a \in alerts'
             ELSE \E b \in alerts' :
                    /\ b.id = a.id
                    /\ b.type = a.type /\ b.severity = a.severity
                    /\ b.escalation_level = a.escalation_level
                    /\ b.auto_resolve_at = a.auto_resolve_at
                    /\ b.created_at = a.created_at
                    /\ frame'[p].notes = "" => b.metadata = a.metadata
                    /\ b.status # "acknowledged" =>
                         /\ b.acknowledged_at = a.acknowledged_at
                         /\ b.acknowledged_by = a.acknowledged_by
                    /\ b.status # "resolved" =>
                         /\ b.resolved_at = a.resolved_at
                         /\ b.resolved_by = a.resolved_by]_vars

\* C28 witness: updateAlertStatus on an id no alert has returned success, two
\* alerts being stored, one of them with an auto_resolve_at
C28_Witness ==
  \E p \in Procs :
     /\ Returned(p)
     /\ frame[p].op = "updateAlertStatus"
     /\ result[p].success
     /\ frame[p].ids = {MaxAlerts + 1}
     /\ Cardinality(alerts) = 2
     /\ \E a \in alerts : a.auto_resolve_at # NullTime

\* the rule evaluation pass of request p for its alert is over and no store
\* operation of it failed
PassDone(p) ==
  /\ pc[p] = "idle"
  /\ frame[p].op = "createAlert"
  /\ frame[p].insertOk
  /\ ~frame[p].failed

\* the action log holds, under the alert's own id, at least one row for
\* every action of every enabled rule of its type and severity
EveryActionLogged(alert) ==
  \A r \in MatchingRules(alert) : \A k \in DOMAIN r.actions :
     \E i \in LogRowsOf(alert.id) :
        /\ actionLogs[i].action_type = r.actions[k].type
        /\ actionLogs[i].recipients = r.actions[k].recipients

\* every row of the action log that names an alert matches an action of an
\* enabled rule of that alert's type and severity
NoRowForAnotherAlert ==
  \A i \in DOMAIN actionLogs : \A a \in alerts :
     a.id = actionLogs[i].alert_id =>
        \E r \in MatchingRules(a) : \E k \in DOMAIN r.actions :
           r.actions[k].type = actionLogs[i].action_type

C27_SweepLeavesUserStatus ==
  [][\A p \in Procs2 : pc[p] = "sweep_bulk" =>
        \A a \in alerts :
           a.status \in {"acknowledged", "dismissed"} => a \in alerts']_vars

\* the alert with this id is stored, active, with an auto_resolve_at
ActiveWithDeadline(id) ==
  \E a \in alerts : /\ a.id = id
                     /\ a.status = "active"
                     /\ a.auto_resolve_at # NullTime

\* C26: with the sweep triggered again and again, the clock advancing and
\* the store accepting the sweep's operations again and again, every alert
\* that is active with a non-null auto_resolve_at eventually is not active
\* any more.
C26_AutoResolveEventuallyHappens ==
  \A id \in 1..MaxAlerts :
     ActiveWithDeadline(id) ~>
        ~(\E a \in alerts : a.id = id /\ a.status = "active")

\* C26 witness: the timer's sweep has resolved an alert after an earlier
\* sweep of the timer had failed
C26_Witness ==
  /\ pc[Sweeper] = "idle"
  /\ frame[Sweeper].op = "processAutoResolveAlerts"
  /\ frame[Sweeper].prevFailed
  /\ ~frame[Sweeper].failed
  /\ \E a \in alerts : /\ a.id \in frame[Sweeper].ids
                       /\ a.status = "resolved"
                       /\ a.resolved_by = "system"

\* C25 (as stated): every step that adds a row to alerts, whichever code
\* path takes it, stores the row with escalation_level = 0 and hands it to
\* processAlertActions (the request moves on to loading the rules for it).
C25_EveryInsertedAlertIsProcessed ==
  [][\A a \in alerts' \ alerts :
        /\ a.escalation_level = 0
        /\ \E p \in Procs : /\ pc'[p] = "pa_rules"
                            /\ frame'[p].data = a]_vars

\* number of entries of the errors field of a response
Entries(field) == IF field.defined THEN Len(field.list) ELSE 0

\* C30: while syncReadings is in its loop every reading before the current
\* one has been counted as processed or as an error, whatever failed; after
\* the loop the two counters add up to the number of readings; the response
\* carries these counters, as many errors entries as error_count, and
\* success exactly when error_count = 0.
C30_SyncCountsAddUp ==
  \A p \in Procs :
     frame[p].op = "syncReadings" =>
       LET fr == frame[p]
           n == Len(fr.readings)
       IN  /\ Len(fr.errors) = fr.errorCount
           /\ pc[p] \in {Stages[j] : j \in 1..7} =>
                /\ fr.i <= n
                /\ fr.processedCount + fr.errorCount = fr.i - 1
           /\ pc[p] = "sr_log" => fr.processedCount + fr.errorCount = n
           /\ result[p].op = "syncReadings" =>
                /\ result[p].processed_count + result[p].error_count = n
                /\ Entries(result[p].errors) = result[p].error_count
                /\ result[p].success <=> result[p].error_count = 0

\* C30 witness: a call of two readings has returned; the first reading
\* failed and the second was processed
C30_Witness ==
  \E p \in Procs :
     /\ result[p].op = "syncReadings"
     /\ Len(frame[p].readings) = 2
     /\ result[p].error_count = 1
     /\ result[p].processed_count = 1
     /\ ~result[p].success
     /\ result[p].errors.list[1].reading_id
          = (IF frame[p].readings[1].id = NullStr
               THEN "unknown" ELSE frame[p].readings[1].id)
     /\ frame[p].readings[1] # frame[p].readings[2]

\* C29 (as stated): once unsubscribe(id) has returned true for an id that a
\* subscribe call returned, no table event invokes the callback registered
\* under that id, and no subscription created for that id is left in the
\* subscriptions map.
C29_UnsubscribedCallbackIsSilent ==
  /\ rtio.invoked \cap rtio.released = {}
  /\ \A sub \in rt.subscriptions : sub.callback \notin rtio.released

====
